---- MODULE Spec2Model ----
(***************************************************************************)
(* Model of PySAR's modify_network.py: the network filter engine           *)
(* (get_date12_to_drop), the reset operation (reset_network), the index    *)
(* list parser (read_input_index_list), the option handling of             *)
(* cmdLineParse / read_template2inps and the control flow of main.         *)
(*                                                                         *)
(* Conventions                                                             *)
(*  - a Python str is a sequence of one-character strings;                 *)
(*  - None is the empty sequence <<>>, a present value v is <<v>>          *)
(*    (for str options the value itself: '' and None are both falsy);      *)
(*  - a date12 'YYYYMMDD_YYYYMMDD' is the pair <<master, slave>> of its    *)
(*    two date strings (what date12.split('_') returns);                   *)
(*  - coherence values are in tenths (7 stands for 0.7);                   *)
(*  - the dataset 'dropIfgram' holds True for a pair that is KEPT.         *)
(***************************************************************************)
EXTENDS Integers, Sequences, FiniteSets, TLC

(***************************************************************************)
(* Bounds of the model                                                     *)
(***************************************************************************)
\* number of options given on the command line plus keys set in the template
MaxOptions == 2
\* number of clicks of the user in the manual selection window
MaxClicks == 2
\* number of tokens of an index list given to the parser on its own
MaxTokens == 3
\* the largest integer of the generated index tokens 'a' and 'a:b'
MaxIdx == 1

(***************************************************************************)
(* Python strings                                                          *)
(***************************************************************************)
Digits == <<"0", "1", "2", "3", "4", "5", "6", "7", "8", "9">>

DigitSet == {Digits[i] : i \in 1..10}

\* value of a decimal digit character
DigitVal(c) == (CHOOSE i \in 1..10 : Digits[i] = c) - 1

\* code point order of the characters used ('-' < digits < ':')
CharOrd(c) == IF c = "-" THEN 45 ELSE IF c = ":" THEN 58 ELSE 48 + DigitVal(c)

\* str < str, lexicographic by code point
RECURSIVE StrLess(_, _)
StrLess(a, b) ==
    IF b = <<>> THEN FALSE
    ELSE IF a = <<>> THEN TRUE
    ELSE IF a[1] = b[1] THEN StrLess(Tail(a), Tail(b))
    ELSE CharOrd(a[1]) < CharOrd(b[1])

\* value of a non-empty string of decimal digits
RECURSIVE DigitsVal(_)
DigitsVal(s) ==
    IF s = <<>> THEN 0
    ELSE 10 * DigitsVal(SubSeq(s, 1, Len(s) - 1)) + DigitVal(s[Len(s)])

AllDigits(s) == s # <<>> /\ \A i \in 1..Len(s) : s[i] \in DigitSet

\* int(s) raises ValueError unless s is an optionally signed digit string
IntOk(s) == IF s # <<>> /\ s[1] = "-" THEN AllDigits(Tail(s)) ELSE AllDigits(s)

\* int(s)
IntVal(s) == IF s[1] = "-" THEN 0 - DigitsVal(Tail(s)) ELSE DigitsVal(s)

\* s.split(sep): the fields of s between the occurrences of sep
RECURSIVE Split(_, _)
Split(s, sep) ==
    IF \A i \in 1..Len(s) : s[i] # sep THEN <<s>>
    ELSE LET k == CHOOSE i \in 1..Len(s) :
                      s[i] = sep /\ \A j \in 1..(i - 1) : s[j] # sep
         IN  <<SubSeq(s, 1, k - 1)>> \o Split(SubSeq(s, k + 1, Len(s)), sep)

\* the decimal digits of a natural number, at least one
RECURSIVE NatStr(_)
NatStr(n) == IF n < 10 THEN <<Digits[n + 1]>>
             ELSE NatStr(n \div 10) \o <<Digits[(n % 10) + 1]>>

\* str(n) of an integer
IntStr(n) == IF n < 0 THEN <<"-">> \o NatStr(0 - n) ELSE NatStr(n)

(***************************************************************************)
(* Python lists                                                            *)
(***************************************************************************)
\* set(list)
Range(s) == {s[i] : i \in 1..Len(s)}

\* x in list
In(x, s) == \E i \in 1..Len(s) : s[i] = x

\* [x for x in s if x in S]
RECURSIVE Filter(_, _)
Filter(s, S) ==
    IF s = <<>> THEN <<>>
    ELSE (IF s[1] \in S THEN <<s[1]>> ELSE <<>>) \o Filter(Tail(s), S)

\* sorted(S) of a set of integers
RECURSIVE SortedInts(_)
SortedInts(S) ==
    IF S = {} THEN <<>>
    ELSE LET m == CHOOSE x \in S : \A y \in S : x <= y
         IN  <<m>> \o SortedInts(S \ {m})

\* date12 string order: 'm1_s1' < 'm2_s2' for dates of equal length
Date12Less(a, b) == StrLess(a[1], b[1]) \/ (a[1] = b[1] /\ StrLess(a[2], b[2]))

\* sorted(list(S)) of a set of date12
RECURSIVE SortedDate12(_)
SortedDate12(S) ==
    IF S = {} THEN <<>>
    ELSE LET m == CHOOSE x \in S : \A y \in S \ {x} : Date12Less(x, y)
         IN  <<m>> \o SortedDate12(S \ {m})

(***************************************************************************)
(* The interferogram stack files (ifgramStack objects) the runs work on    *)
(***************************************************************************)
\* the date string of an 8-digit date number
D(n) == NatStr(n)

StackFiles == {"stackA.h5", "stackB.h5"}

\* the date12 datasets of the two files
Date12A ==
    << <<D(20080101), D(20080201)>>, <<D(20080201), D(20080301)>>,
       <<D(20080101), D(20080301)>> >>

Date12B ==
    << <<D(19991201), D(19991231)>>, <<D(20000215), D(20000315)>> >>

\* obj.date12List: all pairs of the file, in storage order
Date12ListOf(file) ==
    CASE file = "stackA.h5" -> Date12A
      [] file = "stackB.h5" -> Date12B

\* the spatial average coherence of each pair, in tenths (ut.spatial_average)
CohListOf(file) ==
    CASE file = "stackA.h5" -> <<9, 4, 3>>
      [] file = "stackB.h5" -> <<3, 7>>

\* obj.tbaseIfgram: temporal baseline of each pair in days
TbaseIfgramOf(file) ==
    CASE file = "stackA.h5" -> <<31, 29, 60>>
      [] file = "stackB.h5" -> <<30, 29>>

\* obj.pbaseIfgram: perpendicular baseline of each pair in meters
PbaseIfgramOf(file) ==
    CASE file = "stackA.h5" -> <<50, -150, 100>>
      [] file = "stackB.h5" -> <<0, -100>>

\* obj.numIfgramOrig
NumIfgramOrig(file) == Len(Date12ListOf(file))

\* obj.dateList: the sorted dates of all pairs
DateListOf(file) ==
    LET S == UNION {{p[1], p[2]} : p \in Range(Date12ListOf(file))}
        RECURSIVE Sort(_)
        Sort(T) == IF T = {} THEN <<>>
                   ELSE LET m == CHOOSE x \in T : \A y \in T \ {x} : StrLess(x, y)
                        IN  <<m>> \o Sort(T \ {m})
    IN  Sort(S)

\* the pairs kept in the reference file
ReferencePairs ==
    << <<D(20080101), D(20080201)>>, <<D(19991201), D(19991231)>>,
       <<D(20070101), D(20070201)>> >>

\* ifgramStack(referenceFile).get_date12_list(dropIfgram=True)
ReferenceKeepList(referenceFile) == ReferencePairs

\* obj.get_date12_list(dropIfgram=True): the pairs whose flag is True, in storage order
RECURSIVE KeptFrom(_, _, _)
KeptFrom(all, flags, i) ==
    IF i > Len(all) THEN <<>>
    ELSE (IF flags[i] THEN <<all[i]>> ELSE <<>>) \o KeptFrom(all, flags, i + 1)

GetDate12ListKept(file, flags) == KeptFrom(Date12ListOf(file), flags, 1)

\* list(np.array(date12ListAll)[mask]): the pairs at the True positions of a boolean mask
MaskSelect(all, mask) == KeptFrom(all, mask, 1)

Abs(x) == IF x < 0 THEN 0 - x ELSE x

(***************************************************************************)
(* read_input_index_list                                                   *)
(***************************************************************************)
\* the ':'-separated fields of one token
TokenFields(idx) == Split(idx, ":")

\* int(i) succeeds for every field of the token
TokenOk(idx) == \A k \in 1..Len(TokenFields(idx)) : IntOk(TokenFields(idx)[k])

\* c = sorted([int(i) for i in idx.split(':')])
TokenC(idx) ==
    LET f == TokenFields(idx)
        v == [k \in 1..Len(f) |-> IntVal(f[k])]
        RECURSIVE SortList(_)
        SortList(l) ==
            IF l = <<>> THEN <<>>
            ELSE LET k == CHOOSE i \in 1..Len(l) : \A j \in 1..Len(l) : l[i] <= l[j]
                 IN  <<l[k]>> \o SortList(SubSeq(l, 1, k - 1) \o SubSeq(l, k + 1, Len(l)))
    IN  SortList(v)

\* a range that leaves out its upper end
TokenIndicesExclusive(idx) ==
    LET c == TokenC(idx)
    IN  IF Len(c) = 2 THEN c[1]..(c[2] - 1)
        ELSE IF Len(c) = 1 THEN {c[1]}
        ELSE {}

\* what one token appends to idxListOut
TokenIndices(idx) ==
    LET c == TokenC(idx)
    IN  IF Len(c) = 2 THEN c[1]..c[2]
        ELSE IF Len(c) = 1 THEN {c[1]}
        ELSE {}

\* the tokens before the first one whose int() fails (all of them if none fails)
RECURSIVE GoodPrefix(_)
GoodPrefix(idxList) ==
    IF idxList = <<>> \/ ~TokenOk(idxList[1]) THEN <<>>
    ELSE <<idxList[1]>> \o GoodPrefix(Tail(idxList))

\* [i for i in idxListOut if i < obj.numIfgramOrig] when a stack file is given
ClipToStack(idxListOut, stackFile) ==
    IF stackFile = <<>> THEN idxListOut
    ELSE LET n == NumIfgramOrig(stackFile[1])
             RECURSIVE Clip(_)
             Clip(l) == IF l = <<>> THEN <<>>
                        ELSE (IF l[1] < n THEN <<l[1]>> ELSE <<>>) \o Clip(Tail(l))
         IN  Clip(idxListOut)

\* read_input_index_list(idxList, stackFile): error is "ValueError" when int() fails,
\* out the returned list, unrecognized the tokens reported as 'Unrecoganized input'
ReadInputIndexList(idxList, stackFile) ==
    LET good == GoodPrefix(idxList)
        all  == UNION {TokenIndices(good[k]) : k \in 1..Len(good)}
    IN  IF Len(good) < Len(idxList)
        THEN [error |-> "ValueError", out |-> <<>>, unrecognized |-> <<>>]
        ELSE [error |-> "",
              out |-> ClipToStack(SortedInts(all), stackFile),
              unrecognized |-> Filter(idxList, {t \in Range(idxList) : Len(TokenC(t)) > 2})]

(***************************************************************************)
(* pnet.threshold_coherence_based_mst: minimum spanning tree of the dates  *)
(* with the inverse of the coherence as edge weight (Kruskal, ties broken  *)
(* by the original pair order)                                             *)
(***************************************************************************)
\* the pair indices by ascending weight (descending coherence), ties by index
RECURSIVE EdgeOrder(_, _)
EdgeOrder(cohList, I) ==
    IF I = {} THEN <<>>
    ELSE LET e == CHOOSE i \in I : \A j \in I \ {i} :
                      cohList[i] > cohList[j] \/ (cohList[i] = cohList[j] /\ i < j)
         IN  <<e>> \o EdgeOrder(cohList, I \ {e})

\* a pass that never merges the components of the dates it joins
RECURSIVE KruskalNoUnion(_, _, _)
KruskalNoUnion(date12List, order, comp) ==
    IF order = <<>> THEN <<>>
    ELSE LET p == date12List[order[1]]
         IN  IF comp[p[1]] = comp[p[2]]
             THEN KruskalNoUnion(date12List, Tail(order), comp)
             ELSE <<p>> \o KruskalNoUnion(date12List, Tail(order), comp)

\* union-find pass over the ordered edges; comp maps each date to its component
RECURSIVE Kruskal(_, _, _)
Kruskal(date12List, order, comp) ==
    IF order = <<>> THEN <<>>
    ELSE LET p == date12List[order[1]]
         IN  IF comp[p[1]] = comp[p[2]]
             THEN Kruskal(date12List, Tail(order), comp)
             ELSE <<p>> \o Kruskal(date12List, Tail(order),
                                   [d \in DOMAIN comp |->
                                      IF comp[d] = comp[p[2]] THEN comp[p[1]] ELSE comp[d]])

ThresholdCoherenceBasedMst(date12List, cohList) ==
    LET dates == UNION {{p[1], p[2]} : p \in Range(date12List)}
    IN  Kruskal(date12List, EdgeOrder(cohList, 1..Len(date12List)), [d \in dates |-> d])

(***************************************************************************)
(* get_date12_to_drop: the drop list (tempList) of each rule               *)
(***************************************************************************)
RuleNames == <<"referenceFile", "coherenceBased", "tempBaseMax", "perpBaseMax",
               "excludeIfgIndex", "excludeDate", "startDate", "endDate">>

\* the 'if inps.<option>:' test that guards each rule
RuleEnabled(inps, rule) ==
    CASE rule = "referenceFile"   -> inps.referenceFile # <<>>
      [] rule = "coherenceBased"  -> inps.coherenceBased
      [] rule = "tempBaseMax"     -> inps.tempBaseMax # <<>> /\ inps.tempBaseMax[1] # 0
      [] rule = "perpBaseMax"     -> inps.perpBaseMax # <<>> /\ inps.perpBaseMax[1] # 0
      [] rule = "excludeIfgIndex" -> inps.excludeIfgIndex # <<>>
      [] rule = "excludeDate"     -> inps.excludeDate # <<>>
      [] rule = "startDate"       -> inps.startDate # <<>>
      [] rule = "endDate"         -> inps.endDate # <<>>
      [] rule = "manual"          -> inps.manual

\* 1. pairs of the file that are not in the reference
ReferenceDrop(file, inps) ==
    SortedDate12(Range(Date12ListOf(file)) \ Range(ReferenceKeepList(inps.referenceFile)))

\* a threshold test that drops a pair whose coherence equals minCoherence
CohDate12ListStrict(file, inps) ==
    MaskSelect(Date12ListOf(file),
               [i \in 1..NumIfgramOrig(file) |-> CohListOf(file)[i] > inps.minCoherence])

\* 2.1 coh_date12_list: pairs whose coherence reaches minCoherence
CohDate12List(file, inps) ==
    MaskSelect(Date12ListOf(file),
               [i \in 1..NumIfgramOrig(file) |-> CohListOf(file)[i] >= inps.minCoherence])

\* 2.1 mst_date12_list: the MST pairs if keepMinSpanTree, else []
MstDate12List(file, inps) ==
    IF inps.keepMinSpanTree
    THEN ThresholdCoherenceBasedMst(Date12ListOf(file), CohListOf(file))
    ELSE <<>>

\* a coherence block that forgets the MST pairs
CoherenceDropNoMst(file, inps) ==
    SortedDate12(Range(Date12ListOf(file)) \ Range(CohDate12List(file, inps)))

\* 2.1 pairs below the coherence threshold that are not in the MST
CoherenceDrop(file, inps) ==
    SortedDate12((Range(Date12ListOf(file)) \ Range(CohDate12List(file, inps)))
                 \ Range(MstDate12List(file, inps)))

\* 2.2 pairs with abs(temporal baseline) > tempBaseMax
TempBaseDrop(file, inps) ==
    MaskSelect(Date12ListOf(file),
               [i \in 1..NumIfgramOrig(file) |->
                  Abs(TbaseIfgramOf(file)[i]) > inps.tempBaseMax[1]])

\* 2.3 pairs with abs(perpendicular baseline) > perpBaseMax
PerpBaseDrop(file, inps) ==
    MaskSelect(Date12ListOf(file),
               [i \in 1..NumIfgramOrig(file) |->
                  Abs(PbaseIfgramOf(file)[i]) > inps.perpBaseMax[1]])

\* date12ListAll[i] of a Python list of n items: defined for -n <= i < n
IndexOk(i, n) == (0 - n) <= i /\ i < n

\* date12ListAll[i]: a negative index counts from the end
ListItem(list, i) == IF i >= 0 THEN list[i + 1] ELSE list[Len(list) + i + 1]

\* 2.4 [date12ListAll[i] for i in inps.excludeIfgIndex]
IndexDrop(file, inps) ==
    [k \in 1..Len(inps.excludeIfgIndex) |->
        ListItem(Date12ListOf(file), inps.excludeIfgIndex[k])]

\* 2.5 pairs of which the master or slave date string is in excludeDate
ExcludeDateDrop(file, inps) ==
    MaskSelect(Date12ListOf(file),
               [i \in 1..NumIfgramOrig(file) |->
                  \E j \in 1..2 : In(Date12ListOf(file)[i][j], inps.excludeDate)])

\* 2.6 pairs with int(date) < int(startDate) for the master or slave date
StartDateDrop(file, inps) ==
    LET minDate == IntVal(inps.startDate)
    IN  MaskSelect(Date12ListOf(file),
                   [i \in 1..NumIfgramOrig(file) |->
                      \E j \in 1..2 : IntVal(Date12ListOf(file)[i][j]) < minDate])

\* 2.7 pairs with int(date) > int(endDate) for the master or slave date
EndDateDrop(file, inps) ==
    LET maxDate == IntVal(inps.endDate)
    IN  MaskSelect(Date12ListOf(file),
                   [i \in 1..NumIfgramOrig(file) |->
                      \E j \in 1..2 : IntVal(Date12ListOf(file)[i][j]) > maxDate])

\* the exception a rule's block raises before its 'date12_to_drop += tempList', or ""
RuleErrorBefore(file, inps, rule) ==
    CASE rule = "excludeIfgIndex" ->
           IF \E k \in 1..Len(inps.excludeIfgIndex) :
                  ~IndexOk(inps.excludeIfgIndex[k], NumIfgramOrig(file))
           THEN "IndexError" ELSE ""
      [] rule = "startDate" -> IF IntOk(inps.startDate) THEN "" ELSE "ValueError"
      [] rule = "endDate"   -> IF IntOk(inps.endDate) THEN "" ELSE "ValueError"
      [] OTHER -> ""

\* the exception a rule's block raises after its 'date12_to_drop += tempList', or "":
\* the print of the date exclusion block reads the undefined name 'templist'
RuleErrorAfter(file, inps, rule) ==
    IF rule = "excludeDate" THEN "NameError" ELSE ""

\* tempList of one rule
RuleDrop(file, inps, rule) ==
    CASE rule = "referenceFile"   -> ReferenceDrop(file, inps)
      [] rule = "coherenceBased"  -> CoherenceDrop(file, inps)
      [] rule = "tempBaseMax"     -> TempBaseDrop(file, inps)
      [] rule = "perpBaseMax"     -> PerpBaseDrop(file, inps)
      [] rule = "excludeIfgIndex" -> IndexDrop(file, inps)
      [] rule = "excludeDate"     -> ExcludeDateDrop(file, inps)
      [] rule = "startDate"       -> StartDateDrop(file, inps)
      [] rule = "endDate"         -> EndDateDrop(file, inps)

\* a block that assigns its list instead of appending it
AccumulateOverwrite(date12_to_drop, tempList) == tempList

\* 'date12_to_drop += tempList'
Accumulate(date12_to_drop, tempList) == date12_to_drop \o tempList

\* blocks 1 to 2.7 from rule number k on: the accumulated list, the lists of the
\* rules that ran and the exception that ended the function, if any
RECURSIVE RunRules(_, _, _, _, _)
RunRules(file, inps, k, acc, outs) ==
    IF k > Len(RuleNames) THEN [list |-> acc, outs |-> outs, error |-> ""]
    ELSE LET rule == RuleNames[k]
         IN  IF ~RuleEnabled(inps, rule) THEN RunRules(file, inps, k + 1, acc, outs)
             ELSE IF RuleErrorBefore(file, inps, rule) # ""
             THEN [list |-> acc, outs |-> outs, error |-> RuleErrorBefore(file, inps, rule)]
             ELSE LET tempList == RuleDrop(file, inps, rule)
                      acc2  == Accumulate(acc, tempList)
                      outs2 == [outs EXCEPT ![rule] = <<tempList>>]
                  IN  IF RuleErrorAfter(file, inps, rule) # ""
                      THEN [list |-> acc2, outs |-> outs2,
                            error |-> RuleErrorAfter(file, inps, rule)]
                      ELSE RunRules(file, inps, k + 1, acc2, outs2)

AllRules == Range(RuleNames) \cup {"manual"}

\* no rule has produced a list yet
NoOuts == [r \in AllRules |-> <<>>]

\* 4. 'sorted(list(set(date12_to_drop)))'
DropDuplicateAndSort(date12_to_drop) == SortedDate12(Range(date12_to_drop))

\* 4. date12_to_keep = sorted(list(set(date12ListAll) - set(date12_to_drop)))
Date12ToKeep(file, date12_to_drop) ==
    SortedDate12(Range(Date12ListOf(file)) \ Range(date12_to_drop))

\* date12ListDropped: the pairs currently marked as dropped in the file
Date12ListDropped(file, flags) ==
    SortedDate12(Range(Date12ListOf(file)) \ Range(GetDate12ListKept(file, flags)))

\* a return that adds the pairs already marked as dropped to the list
ReturnValueCumulative(file, flags, date12_to_drop) ==
    LET all == SortedDate12(Range(date12_to_drop) \cup Range(Date12ListDropped(file, flags)))
    IN  IF all = Date12ListDropped(file, flags) THEN <<>> ELSE <<all>>

\* a return that never signals 'nothing to change'
ReturnValueAlways(file, flags, date12_to_drop) == <<date12_to_drop>>

\* the value returned: None (<<>>) when the list equals the one marked in the file
ReturnValue(file, flags, date12_to_drop) ==
    IF date12_to_drop = Date12ListDropped(file, flags) THEN <<>> ELSE <<date12_to_drop>>

(***************************************************************************)
(* The inputs of a run: the command line and the template file             *)
(***************************************************************************)
\* the strings used as date options
S(n) == NatStr(n)
Str6(n) == SubSeq(NatStr(1000000 + n), 2, 7)

\* index tokens such as '1:2'
Tok(a, b) == IntStr(a) \o <<":">> \o IntStr(b)

OptionNames ==
    {"reset", "manual", "tempBaseMax", "perpBaseMax", "referenceFile", "excludeIfgIndex",
     "excludeDate", "startDate", "endDate", "coherenceBased", "keepMinSpanTree",
     "minCoherence",
     "t.coherenceBased", "t.excludeIfgIndex", "t.excludeDate", "t.startDate", "t.endDate"}

\* the template keys the inputs set (keepMinSpanTree is read like coherenceBased;
\* minCoherence, tempBaseMax, perpBaseMax and referenceFile replace the value of the
\* command line; they are left unset)
TemplateKeys ==
    {"t.coherenceBased", "t.excludeIfgIndex", "t.excludeDate", "t.startDate", "t.endDate"}

\* the sets of at most k of the options
RECURSIVE OptionSets(_)
OptionSets(k) ==
    IF k = 0 THEN {{}}
    ELSE LET prev == OptionSets(k - 1)
         IN  prev \cup {T \cup {x} : T \in prev, x \in OptionNames}

Pick(O, name, choices, default) == IF name \in O THEN choices ELSE {default}

\* parser.parse_args: the namespace of a command line that gives the options O;
\* an option that is not given holds its argparse default
ParseArgs(O) ==
    [reset           : Pick(O, "reset", {TRUE}, FALSE),
     manual          : Pick(O, "manual", {TRUE}, FALSE),
     tempBaseMax     : Pick(O, "tempBaseMax", {<<0>>, <<30>>}, <<>>),
     perpBaseMax     : Pick(O, "perpBaseMax", {<<100>>}, <<>>),
     referenceFile   : Pick(O, "referenceFile", {<<"reference.h5">>}, <<>>),
     excludeIfgIndex : Pick(O, "excludeIfgIndex",
                            {<<IntStr(0)>>, <<Tok(2, 1), IntStr(5)>>,
                             <<IntStr(-1)>>, <<IntStr(-4)>>}, <<>>),
     excludeDate     : Pick(O, "excludeDate", {<<S(20080201)>>, <<Str6(80201)>>}, <<>>),
     startDate       : Pick(O, "startDate", {S(20080201), Str6(80201)}, <<>>),
     endDate         : Pick(O, "endDate", {S(20080201), Str6(80201)}, <<>>),
     coherenceBased  : Pick(O, "coherenceBased", {TRUE}, FALSE),
     keepMinSpanTree : Pick(O, "keepMinSpanTree", {FALSE}, TRUE),
     minCoherence    : Pick(O, "minCoherence", {3}, 7)]

\* readfile.read_template + ut.check_template_auto_value: the value of each key of
\* the template file, <<>> for a key the file does not set
ReadTemplate(O) ==
    [coherenceBased  : Pick(O, "t.coherenceBased", {<<TRUE>>, <<FALSE>>}, <<>>),
     keepMinSpanTree : Pick(O, "t.keepMinSpanTree", {<<TRUE>>, <<FALSE>>}, <<>>),
     minCoherence    : Pick(O, "t.minCoherence", {<<8>>}, <<>>),
     tempBaseMax     : Pick(O, "t.tempBaseMax", {<<30>>}, <<>>),
     perpBaseMax     : Pick(O, "t.perpBaseMax", {<<100>>}, <<>>),
     referenceFile   : Pick(O, "t.referenceFile", {<<"reference.h5">>}, <<>>),
     excludeIfgIndex : Pick(O, "t.excludeIfgIndex", {<<IntStr(1)>>, <<Tok(0, 1), IntStr(7)>>}, <<>>),
     excludeDate     : Pick(O, "t.excludeDate", {<<Str6(80201), S(20000315)>>}, <<>>),
     startDate       : Pick(O, "t.startDate", {Str6(80201)}, <<>>),
     endDate         : Pick(O, "t.endDate", {Str6(80301)}, <<>>)]

NoTemplate == CHOOSE t \in ReadTemplate({}) : TRUE

\* the inputs of one run: the parsed command line, whether -t is given, the template
Inputs ==
    UNION {{[args |-> a, template_file |-> tf, template |-> t] :
               a \in ParseArgs(O),
               tf \in (IF O \cap TemplateKeys = {} THEN BOOLEAN ELSE {TRUE}),
               t \in ReadTemplate(O)} : O \in OptionSets(MaxOptions)}

(***************************************************************************)
(* ptime.yyyymmdd                                                          *)
(***************************************************************************)
\* yymmdd2yyyymmdd: '19' before a date that starts with '9', else '20'
Yymmdd2yyyymmdd(date) ==
    IF date[1] = "9" THEN <<"1", "9">> \o date ELSE <<"2", "0">> \o date

\* yyyymmdd of one str: a 6 character date is expanded, any other is returned as it is
Yyyymmdd(dates) == IF Len(dates) = 6 THEN Yymmdd2yyyymmdd(dates) ELSE dates

\* yyyymmdd of a list of str
YyyymmddList(dates) == [k \in 1..Len(dates) |-> Yyyymmdd(dates[k])]

(***************************************************************************)
(* cmdLineParse, read_template2inps                                        *)
(***************************************************************************)
\* the test of main and read_template2inps: no option that drops or resets is set
NoOption(inps) ==
    /\ \A rule \in AllRules : ~RuleEnabled(inps, rule)
    /\ ~inps.reset

\* cmdLineParse: the index tokens, when given, become the clipped index list
CmdLineIndex(args, file) ==
    IF args.excludeIfgIndex # <<>>
    THEN ReadInputIndexList(args.excludeIfgIndex, <<file>>)
    ELSE [error |-> "", out |-> <<>>, unrecognized |-> <<>>]

\* the excludeIfgIndex key of the template: the tokens are appended to the list of
\* integers cmdLineParse left and the whole list is parsed again; idx.split fails
\* on an integer
TemplateIndex(inps, tokens, file) ==
    IF inps.excludeIfgIndex # <<>>
    THEN [error |-> "AttributeError", out |-> <<>>, unrecognized |-> <<>>]
    ELSE ReadInputIndexList(tokens, <<file>>)

\* the loop over the keys of the template that are options of inps
UpdateFromTemplate(inps, t, file) ==
    [inps EXCEPT
       !.coherenceBased  = IF t.coherenceBased # <<>> THEN t.coherenceBased[1] ELSE @,
       !.keepMinSpanTree = IF t.keepMinSpanTree # <<>> THEN t.keepMinSpanTree[1] ELSE @,
       !.minCoherence    = IF t.minCoherence # <<>> THEN t.minCoherence[1] ELSE @,
       !.tempBaseMax     = IF t.tempBaseMax # <<>> THEN t.tempBaseMax ELSE @,
       !.perpBaseMax     = IF t.perpBaseMax # <<>> THEN t.perpBaseMax ELSE @,
       !.referenceFile   = IF t.referenceFile # <<>> THEN t.referenceFile ELSE @,
       !.startDate       = IF t.startDate # <<>> THEN Yyyymmdd(t.startDate) ELSE @,
       !.endDate         = IF t.endDate # <<>> THEN Yyyymmdd(t.endDate) ELSE @,
       !.excludeDate     = IF t.excludeDate # <<>> THEN YyyymmddList(t.excludeDate) ELSE @,
       !.excludeIfgIndex = IF t.excludeIfgIndex # <<>>
                           THEN TemplateIndex(inps, t.excludeIfgIndex, file).out ELSE @]

\* 'Turn reset on if no input options found to drop ifgram'
TurnResetOn(inps) == IF NoOption(inps) THEN [inps EXCEPT !.reset = TRUE] ELSE inps

(***************************************************************************)
(* manual_select_pairs_to_remove                                           *)
(***************************************************************************)
\* onclick for each click in turn: every second click, if it differs from the one
\* before, selects the pair of the two dates when that pair is in the file
RECURSIVE OnClicks(_, _, _)
OnClicks(date12ListAll, clicks, n) ==
    IF n = 0 THEN <<>>
    ELSE LET before == OnClicks(date12ListAll, clicks, n - 1)
         IN  IF n % 2 = 0 /\ clicks[n - 1] # clicks[n]
             THEN LET date12 == IF StrLess(clicks[n - 1], clicks[n])
                                THEN <<clicks[n - 1], clicks[n]>>
                                ELSE <<clicks[n], clicks[n - 1]>>
                  IN  IF In(date12, date12ListAll) THEN Append(before, date12) ELSE before
             ELSE before

\* the sequences of at most MaxClicks clicked dates
ClickSeqs(file) ==
    UNION {[1..n -> Range(DateListOf(file))] : n \in 0..MaxClicks}

\* 3. tempList = [i for i in tempList if i in date12ListAll]
ManualDrop(file, date12_click) == Filter(date12_click, Range(Date12ListOf(file)))

(***************************************************************************)
(* ifgramStack.update_drop_ifgram, reset_network                           *)
(***************************************************************************)
\* the dataset after update_drop_ifgram(date12List_to_drop): True for a pair not in the list
UpdateDropIfgram(file, date12List_to_drop) ==
    [i \in 1..NumIfgramOrig(file) |-> ~In(Date12ListOf(file)[i], date12List_to_drop)]

\* f['dropIfgram'][:] = True
AllTrue(file) == [i \in 1..NumIfgramOrig(file) |-> TRUE]

\* np.all(obj.dropIfgram)
NpAll(flags) == \A i \in 1..Len(flags) : flags[i]

\* the exception raised after the write of reset_network: its ut.touch call reads
\* 'inps', which is a local of main and no name of reset_network or of the module
ResetTouchError == "NameError"

(***************************************************************************)
(* get_date12_to_drop as a function of the options                         *)
(***************************************************************************)
\* the rules whose 'if inps.<option>:' test holds
EnabledRules(inps) == {rule \in AllRules : RuleEnabled(inps, rule)}

\* the options with every rule outside R switched off, all values unchanged
OnlyRules(inps, R) ==
    [inps EXCEPT
       !.referenceFile   = IF "referenceFile" \in R THEN @ ELSE <<>>,
       !.coherenceBased  = IF "coherenceBased" \in R THEN @ ELSE FALSE,
       !.tempBaseMax     = IF "tempBaseMax" \in R THEN @ ELSE <<>>,
       !.perpBaseMax     = IF "perpBaseMax" \in R THEN @ ELSE <<>>,
       !.excludeIfgIndex = IF "excludeIfgIndex" \in R THEN @ ELSE <<>>,
       !.excludeDate     = IF "excludeDate" \in R THEN @ ELSE <<>>,
       !.startDate       = IF "startDate" \in R THEN @ ELSE <<>>,
       !.endDate         = IF "endDate" \in R THEN @ ELSE <<>>,
       !.manual          = IF "manual" \in R THEN @ ELSE FALSE]

\* lines 278-376: <<date12_to_drop>> as line 376 leaves it when the user selects the
\* pairs 'clicked' and proceeds, or <<>> when a block raises before
DropSetOf(file, inps, clicked) ==
    LET r == RunRules(file, inps, 1, <<>>, NoOuts)
    IN  IF r.error # "" THEN <<>>
        ELSE IF inps.manual
        THEN <<DropDuplicateAndSort(Accumulate(r.list, ManualDrop(file, clicked)))>>
        ELSE <<DropDuplicateAndSort(r.list)>>

(***************************************************************************)
(* The state of a run of main on one stack file                            *)
(***************************************************************************)
VARIABLES
    file,            \* inps.file: the stack file of the run
    dropIfgram,      \* the dataset 'dropIfgram' of the file (True: the pair is kept)
    template,        \* the content of the template file of the run
    inps,            \* the namespace of options
    pc,              \* where main is
    date12_to_drop,  \* local of get_date12_to_drop
    date12_to_keep,  \* local of get_date12_to_drop
    tempLists,       \* the tempList of each rule that has run (<<list>>), else <<>>
    date12_click,    \* what manual_select_pairs_to_remove returned (<<list>>, or <<>> for None)
    proceed,         \* the user's answer to 'Proceed to drop the ifgrams/date12?', "" before
    result,          \* inps.date12_to_drop: what get_date12_to_drop returned (<<>> for None)
    err,             \* the exception that ended the run, "" if none
    report,          \* the messages printed that tell what the run did
    nWrites,         \* number of writes to the dataset 'dropIfgram' in this run
    dropIfgram0,     \* the dataset 'dropIfgram' when the run started
    idxCall,         \* a call of read_input_index_list on its own: arguments and result
    fnCall           \* a call of another function on its own: arguments and result

vars == <<file, dropIfgram, template, inps, pc, date12_to_drop, date12_to_keep,
          tempLists, date12_click, proceed, result, err, report, nWrites, dropIfgram0, idxCall, fnCall>>

\* no call of read_input_index_list on its own
NoIdxCall == [idxList |-> <<>>, stackFile |-> <<>>, pc |-> "none",
              error |-> "", out |-> <<>>, unrecognized |-> <<>>]

\* no call of another function on its own
NoFnCall == [fn |-> "none", pc |-> "none", args |-> <<>>, out |-> <<>>, error |-> ""]

\* the namespace before parse_args
NoInps == CHOOSE a \in ParseArgs({}) : TRUE

RunLocalsInit ==
    /\ template = NoTemplate
    /\ inps = NoInps
    /\ pc = "cmdLineParse"
    /\ date12_to_drop = <<>>
    /\ date12_to_keep = <<>>
    /\ tempLists = NoOuts
    /\ date12_click = <<>>
    /\ proceed = ""
    /\ result = <<>>
    /\ err = ""
    /\ report = {}
    /\ nWrites = 0

\* a stack file as load_data writes it: every pair is kept
Init ==
    /\ file \in StackFiles
    /\ dropIfgram = AllTrue(file)
    /\ dropIfgram0 = dropIfgram
    /\ RunLocalsInit
    /\ idxCall = NoIdxCall
    /\ fnCall = NoFnCall

Raise(e) == /\ pc' = "failed"
            /\ err' = e

\* main, line 392: inps = cmdLineParse(iargs)
CmdLineParse ==
    /\ pc = "cmdLineParse"
    /\ \E in \in Inputs :
         LET r == CmdLineIndex(in.args, file)
         IN  IF r.error # ""
             THEN /\ Raise(r.error)
                  /\ UNCHANGED <<inps, template, report>>
             ELSE /\ inps' = [in.args EXCEPT !.excludeIfgIndex = r.out]
                  /\ template' = in.template
                  /\ pc' = IF in.template_file THEN "read_template2inps" ELSE "main"
                  /\ report' = IF r.unrecognized # <<>> THEN {"unrecognized input"} ELSE {}
                  /\ err' = ""
    /\ UNCHANGED <<file, dropIfgram, date12_to_drop, date12_to_keep, tempLists,
                   date12_click, proceed, result, nWrites, dropIfgram0, idxCall, fnCall>>

\* main, lines 393-394: inps = read_template2inps(inps.template_file, inps)
ReadTemplate2Inps ==
    /\ pc = "read_template2inps"
    /\ LET r == IF template.excludeIfgIndex # <<>>
                THEN TemplateIndex(inps, template.excludeIfgIndex, file)
                ELSE [error |-> "", out |-> <<>>, unrecognized |-> <<>>]
           updated == UpdateFromTemplate(inps, template, file)
       IN  IF r.error # ""
           THEN /\ Raise(r.error)
                /\ UNCHANGED <<inps, report>>
           ELSE /\ inps' = TurnResetOn(updated)
                /\ report' = report
                             \cup (IF r.unrecognized # <<>> THEN {"unrecognized input"} ELSE {})
                             \cup (IF NoOption(updated) THEN {"reset turned on"} ELSE {})
                /\ pc' = "main"
                /\ err' = ""
    /\ UNCHANGED <<file, dropIfgram, template, date12_to_drop, date12_to_keep, tempLists,
                   date12_click, proceed, result, nWrites, dropIfgram0, idxCall, fnCall>>

\* main, lines 396-401: no option found, sys.exit(1)
MainNoOption ==
    /\ pc = "main"
    /\ NoOption(inps)
    /\ Raise("SystemExit")
    /\ report' = report \cup {"no input option"}
    /\ UNCHANGED <<file, dropIfgram, template, inps, date12_to_drop, date12_to_keep,
                   tempLists, date12_click, proceed, result, nWrites, dropIfgram0, idxCall, fnCall>>

\* where main goes on after reset_network returned: 'return inps.file'
AfterReset == "done"

\* main, lines 403-406 and reset_network
ResetNetwork ==
    /\ pc = "main"
    /\ ~NoOption(inps)
    /\ inps.reset
    /\ IF NpAll(dropIfgram)
       THEN /\ report' = report \cup {"reset dataset", "already reset"}
            /\ pc' = AfterReset
            /\ UNCHANGED <<dropIfgram, nWrites, err>>
       ELSE /\ dropIfgram' = AllTrue(file)
            /\ nWrites' = nWrites + 1
            /\ Raise(ResetTouchError)
            /\ report' = report \cup {"reset dataset"}
    /\ UNCHANGED <<file, template, inps, date12_to_drop, date12_to_keep, tempLists,
                   date12_click, proceed, result, dropIfgram0, idxCall, fnCall>>

\* get_date12_to_drop, lines 375-387, given the list all rules accumulated
Finish(list) ==
    /\ date12_to_drop' = DropDuplicateAndSort(list)
    /\ date12_to_keep' = Date12ToKeep(file, DropDuplicateAndSort(list))
    /\ result' = ReturnValue(file, dropIfgram, DropDuplicateAndSort(list))
    /\ report' = IF ReturnValue(file, dropIfgram, DropDuplicateAndSort(list)) = <<>>
                 THEN report \cup {"skip updating file"} ELSE report
    /\ pc' = "update"
    /\ err' = ""

\* main, line 408: get_date12_to_drop up to its return, its exception, or the call
\* of manual_select_pairs_to_remove, which waits for the user
GetDate12ToDrop ==
    /\ pc \in {"main", "compute"}
    /\ pc = "main" => ~NoOption(inps) /\ ~inps.reset
    /\ LET r == RunRules(file, inps, 1, <<>>, NoOuts)
       IN  /\ tempLists' = r.outs
           /\ IF r.error # ""
              THEN /\ Raise(r.error)
                   /\ date12_to_drop' = r.list
                   /\ UNCHANGED <<date12_to_keep, result, report>>
              ELSE IF inps.manual
              THEN /\ pc' = "manual"
                   /\ date12_to_drop' = r.list
                   /\ UNCHANGED <<date12_to_keep, result, report, err>>
              ELSE Finish(r.list)
    /\ UNCHANGED <<file, dropIfgram, template, inps, date12_click, proceed, nWrites,
                   dropIfgram0, idxCall, fnCall>>

\* an abort that returns an empty list instead of None
ManualReturnEmptyOnAbort(clicked, yes) == IF yes THEN <<clicked>> ELSE << <<>> >>

\* lines 262-265: the list of clicked pairs, or None if the user does not proceed
ManualReturn(clicked, yes) == IF yes THEN <<clicked>> ELSE <<>>

\* manual_select_pairs_to_remove returns and get_date12_to_drop runs to its end
ManualSelectPairsToRemove ==
    /\ pc = "manual"
    /\ \E clicks \in ClickSeqs(file), yes \in BOOLEAN :
         LET ret == ManualReturn(OnClicks(Date12ListOf(file), clicks, Len(clicks)), yes)
         IN  /\ date12_click' = ret
             /\ proceed' = IF yes THEN "yes" ELSE "no"
             /\ IF ret = <<>>
                THEN /\ result' = <<>>
                     /\ pc' = "update"
                     /\ UNCHANGED <<date12_to_drop, date12_to_keep, tempLists, report, err>>
                ELSE /\ tempLists' = [tempLists EXCEPT !["manual"] = <<ManualDrop(file, ret[1])>>]
                     /\ Finish(Accumulate(date12_to_drop, ManualDrop(file, ret[1])))
    /\ UNCHANGED <<file, dropIfgram, template, inps, nWrites, dropIfgram0, idxCall, fnCall>>

\* main, lines 410-428: write the flags unless get_date12_to_drop returned None
MainUpdate ==
    /\ pc = "update"
    /\ IF result # <<>>
       THEN /\ dropIfgram' = UpdateDropIfgram(file, result[1])
            /\ nWrites' = nWrites + 1
       ELSE UNCHANGED <<dropIfgram, nWrites>>
    /\ pc' = "done"
    /\ UNCHANGED <<file, template, inps, date12_to_drop, date12_to_keep, tempLists,
                   date12_click, proceed, result, err, report, dropIfgram0, idxCall, fnCall>>

\* the program is run again on the same file
NewRun ==
    /\ pc \in {"done", "failed"}
    /\ dropIfgram0' = dropIfgram
    /\ template' = NoTemplate
    /\ inps' = NoInps
    /\ pc' = "cmdLineParse"
    /\ date12_to_drop' = <<>>
    /\ date12_to_keep' = <<>>
    /\ tempLists' = NoOuts
    /\ date12_click' = <<>>
    /\ proceed' = ""
    /\ result' = <<>>
    /\ err' = ""
    /\ report' = {}
    /\ nWrites' = 0
    /\ UNCHANGED <<file, dropIfgram, idxCall, fnCall>>

Next ==
    \/ CmdLineParse
    \/ ReadTemplate2Inps
    \/ MainNoOption
    \/ ResetNetwork
    \/ GetDate12ToDrop
    \/ ManualSelectPairsToRemove
    \/ MainUpdate
    \/ NewRun

Spec == Init /\ [][Next]_vars

(***************************************************************************)
(* read_input_index_list called on its own, on every bounded token list    *)
(***************************************************************************)
\* the tokens 'a' and 'a:b' of the integers 0..MaxIdx, the tokens of the documented
\* examples, a negative index, and tokens with more than one ':'
IndexTokens ==
    {IntStr(a) : a \in 0..MaxIdx}
    \cup {Tok(a, b) : a \in 0..MaxIdx, b \in 0..MaxIdx}
    \cup {IntStr(2), Tok(4, 6), Tok(5, 2), IntStr(-1),
          Tok(1, 2) \o <<":">> \o IntStr(3), IntStr(1) \o <<":", ":">> \o IntStr(2)}

IndexTokenLists == UNION {[1..n -> IndexTokens] : n \in 0..MaxTokens}

IdxInit ==
    /\ file = "stackA.h5"
    /\ dropIfgram = AllTrue(file)
    /\ dropIfgram0 = dropIfgram
    /\ RunLocalsInit
    /\ fnCall = NoFnCall
    /\ \E l \in IndexTokenLists, f \in {<<>>, <<"stackA.h5">>} :
         idxCall = [NoIdxCall EXCEPT !.idxList = l, !.stackFile = f, !.pc = "call"]

\* the call returns, or raises the ValueError of int()
ReadInputIndexListCall ==
    /\ idxCall.pc = "call"
    /\ LET r == ReadInputIndexList(idxCall.idxList, idxCall.stackFile)
       IN  idxCall' = [idxCall EXCEPT !.pc = IF r.error = "" THEN "return" ELSE "raise",
                                      !.error = r.error, !.out = r.out,
                                      !.unrecognized = r.unrecognized]
    /\ UNCHANGED <<file, dropIfgram, template, inps, pc, date12_to_drop, date12_to_keep,
                   tempLists, date12_click, proceed, result, err, report, nWrites, dropIfgram0,
                   fnCall>>

IdxNext == ReadInputIndexListCall

SpecIdx == IdxInit /\ [][IdxNext]_vars

(***************************************************************************)
(* Properties                                                              *)
(***************************************************************************)
\* get_date12_to_drop reached its line 376: it returned, and not for the user's abort
Computed == pc \in {"update", "done"} /\ "reset dataset" \notin report /\ proceed # "no"

\* the rules whose block has appended its list
RulesRun == {rule \in AllRules : tempLists[rule] # <<>>}

\* all pairs of the file
FullSet == Range(Date12ListOf(file))

\* the pairs marked as dropped by a 'dropIfgram' dataset
DroppedSet(flags) == {Date12ListOf(file)[i] : i \in {k \in 1..Len(flags) : ~flags[k]}}

\* the coherence of a pair of the file
CohOf(p) == CohListOf(file)[CHOOSE i \in 1..NumIfgramOrig(file) : Date12ListOf(file)[i] = p]

\* the three pairs of the documented scenario (stackA.h5)
PairA == <<D(20080101), D(20080201)>>
PairB == <<D(20080201), D(20080301)>>
PairC == <<D(20080101), D(20080301)>>

\* C1: whenever get_date12_to_drop computes its final lists, the block of every enabled
\* rule and of no other has run, date12_to_drop is the strictly ascending (sorted,
\* duplicate-free) list of the union of their lists, and date12_to_keep holds exactly
\* the other pairs of the file, so the two partition the full pair set.
C1_DropIsSortedUnion ==
    Computed =>
      /\ RulesRun = EnabledRules(inps)
      /\ Range(date12_to_drop) = UNION {Range(tempLists[rule][1]) : rule \in RulesRun}
      /\ \A i, j \in 1..Len(date12_to_drop) :
            i < j => Date12Less(date12_to_drop[i], date12_to_drop[j])
      /\ \A i, j \in 1..Len(date12_to_keep) :
            i < j => Date12Less(date12_to_keep[i], date12_to_keep[j])
      /\ Range(date12_to_keep) = FullSet \ Range(date12_to_drop)
      /\ Range(date12_to_keep) \cup Range(date12_to_drop) = FullSet
      /\ Range(date12_to_keep) \cap Range(date12_to_drop) = {}

\* two rules ran, both dropped a same pair, and the run returned a drop list that
\* leaves some pair kept
C1_Witness ==
    /\ Computed
    /\ result # <<>>
    /\ date12_to_keep # <<>>
    /\ \E r1, r2 \in RulesRun :
         /\ r1 # r2
         /\ Range(tempLists[r1][1]) \cap Range(tempLists[r2][1]) # {}
         /\ Range(tempLists[r1][1]) # Range(tempLists[r2][1])

\* the MST pair set of the coherence block: the MST if keepMinSpanTree, else empty
MstSet == IF inps.keepMinSpanTree
          THEN Range(ThresholdCoherenceBasedMst(Date12ListOf(file), CohListOf(file)))
          ELSE {}

\* C2: when the coherence-based rule has run, its list holds exactly the pairs of the
\* file whose coherence is below minCoherence (a pair at minCoherence is kept) and that
\* are not in the MST set; in the documented scenario (stackA.h5, minCoherence 0.7,
\* keepMinSpanTree) the list is [C].
C2_CoherenceDrop ==
    /\ (pc \in {"manual", "update"} /\ inps.coherenceBased) => tempLists["coherenceBased"] # <<>>
    /\ tempLists["coherenceBased"] # <<>> =>
         /\ Range(tempLists["coherenceBased"][1])
              = {p \in FullSet : CohOf(p) < inps.minCoherence /\ p \notin MstSet}
         /\ (file = "stackA.h5" /\ inps.minCoherence = 7 /\ inps.keepMinSpanTree)
              => tempLists["coherenceBased"][1] = <<PairC>>

\* the documented scenario: A is kept for its coherence, B for the MST, C is dropped
C2_Witness ==
    /\ file = "stackA.h5"
    /\ pc = "update"
    /\ inps.coherenceBased /\ inps.keepMinSpanTree /\ inps.minCoherence = 7
    /\ MstSet = {PairA, PairB}
    /\ CohOf(PairB) < inps.minCoherence
    /\ tempLists["coherenceBased"] = << <<PairC>> >>
    /\ date12_to_drop = <<PairC>>

\* the pairs that the MST protects from the coherence threshold
MstProtected == {p \in MstSet : CohOf(p) < inps.minCoherence}

\* C3 as stated: with the coherence-based rule and keepMinSpanTree enabled, a pair
\* below minCoherence that is in the MST is never in the drop list get_date12_to_drop
\* computes.
C3_AsStated ==
    (Computed /\ inps.coherenceBased /\ inps.keepMinSpanTree) =>
        \A p \in MstProtected : ~In(p, date12_to_drop)

\* C3 amended: such a pair is never in the list of the coherence-based rule, and it is
\* in the computed drop list exactly when the list of another enabled rule holds it.
C3_MstProtectedFromCoherenceRule ==
    (tempLists["coherenceBased"] # <<>> /\ inps.keepMinSpanTree) =>
        \A p \in MstProtected :
          /\ ~In(p, tempLists["coherenceBased"][1])
          /\ Computed =>
               (In(p, date12_to_drop)
                  <=> \E rule \in RulesRun \ {"coherenceBased"} : In(p, tempLists[rule][1]))

\* B of the scenario is below the threshold, in the MST and kept; C is dropped
C3_Witness ==
    /\ file = "stackA.h5"
    /\ Computed
    /\ tempLists["coherenceBased"] # <<>> /\ inps.keepMinSpanTree
    /\ PairB \in MstProtected
    /\ ~In(PairB, date12_to_drop)
    /\ In(PairC, date12_to_drop)

\* the pairs selected by the user of this run ([] when there was no selection)
Clicked == IF date12_click = <<>> THEN <<>> ELSE date12_click[1]

\* C4: for the inputs of a run that computed its drop list and any rule sets
\* R1 \subseteq R2 of its enabled rules, the drop list computed with only R1 enabled is
\* a subset of the one computed with only R2 enabled (the run itself being the case of
\* all of them enabled).
C4_MonotoneInRules ==
    (pc = "update" /\ Computed) =>
      /\ DropSetOf(file, inps, Clicked) = <<date12_to_drop>>
      /\ \A R2 \in SUBSET EnabledRules(inps) :
           LET d2 == DropSetOf(file, OnlyRules(inps, R2), Clicked)
           IN  /\ d2 # <<>>
               /\ \A R1 \in SUBSET R2 :
                    LET d1 == DropSetOf(file, OnlyRules(inps, R1), Clicked)
                    IN  d1 # <<>> /\ Range(d1[1]) \subseteq Range(d2[1])

\* two enabled rules of which each drops a pair the other does not
C4_Witness ==
    /\ pc = "update" /\ Computed
    /\ \E r1, r2 \in EnabledRules(inps) :
         LET d1 == DropSetOf(file, OnlyRules(inps, {r1}), Clicked)
             d2 == DropSetOf(file, OnlyRules(inps, {r2}), Clicked)
         IN  /\ Range(d1[1]) \ Range(d2[1]) # {}
             /\ Range(d2[1]) \ Range(d1[1]) # {}
             /\ Range(d1[1]) \cup Range(d2[1]) \subseteq Range(date12_to_drop)

\* C5: a run that computed its drop list returns None and ends without a write and with
\* every flag unchanged if that list equals the list of the pairs marked as dropped when
\* it started; else it returns the list and ends with exactly the pairs of the list
\* marked as dropped.
C5_NoChangeOrUpdate ==
    (pc = "done" /\ Computed) =>
      IF Range(date12_to_drop) = DroppedSet(dropIfgram0)
      THEN result = <<>> /\ nWrites = 0 /\ dropIfgram = dropIfgram0
                         /\ "skip updating file" \in report
      ELSE result = <<date12_to_drop>> /\ nWrites = 1
                         /\ DroppedSet(dropIfgram) = Range(date12_to_drop)

\* a run whose non-empty drop list is the one already marked in the file
C5_Witness ==
    /\ pc = "done" /\ Computed
    /\ date12_to_drop # <<>>
    /\ Range(date12_to_drop) = DroppedSet(dropIfgram0)
    /\ result = <<>> /\ nWrites = 0 /\ dropIfgram = dropIfgram0

\* C6: when the user does not proceed, manual_select_pairs_to_remove returns None, the
\* run gets None from get_date12_to_drop, writes nothing and leaves every flag as it
\* was, whatever the other rules had appended; when the user proceeds, with or without
\* selected pairs, the rule appends its selected pairs that are pairs of the file and
\* the function goes on to compute the final drop list, which holds them.
C6_ManualAbortOrProceed ==
    /\ proceed = "no" =>
         /\ date12_click = <<>> /\ result = <<>> /\ tempLists["manual"] = <<>>
         /\ pc \in {"update", "done"} /\ err = ""
         /\ nWrites = 0 /\ dropIfgram = dropIfgram0
    /\ proceed = "yes" =>
         /\ date12_click # <<>>
         /\ Computed
         /\ tempLists["manual"] = <<Filter(date12_click[1], FullSet)>>
         /\ Range(tempLists["manual"][1]) \subseteq Range(date12_to_drop)
         /\ C1_DropIsSortedUnion

\* an aborted run: other rules had appended pairs that are not the ones marked in the
\* file, and the run ended without a change
C6_Witness ==
    /\ proceed = "no" /\ pc = "done"
    /\ date12_to_drop # <<>>
    /\ Range(date12_to_drop) # DroppedSet(dropIfgram0)
    /\ dropIfgram = dropIfgram0

\* C7: in every run the dataset 'dropIfgram' is written at most once, as the last step
\* of the run: before the run is over no write has happened, a run without a write
\* leaves the dataset as it was at the start, so does a run the user aborted or that
\* failed before reset_network or update_drop_ifgram, and the one write of a run that
\* is not a reset marks exactly the pairs of the returned drop list.
C7_WriteOnceAtEnd ==
    /\ nWrites <= 1
    /\ nWrites = 1 => pc \in {"done", "failed"}
    /\ nWrites = 0 => dropIfgram = dropIfgram0
    /\ proceed = "no" => nWrites = 0
    /\ (pc = "failed" /\ "reset dataset" \notin report) => nWrites = 0
    /\ (nWrites = 1 /\ "reset dataset" \notin report) =>
          /\ Computed /\ result = <<date12_to_drop>>
          /\ DroppedSet(dropIfgram) = Range(date12_to_drop)

\* a run with a manual selection that changed the flags with its one write at the end
C7_Witness ==
    /\ pc = "done" /\ nWrites = 1
    /\ proceed = "yes"
    /\ dropIfgram # dropIfgram0
    /\ ~NpAll(dropIfgram0)

\* C8 as stated: from any state of the flags reset completes leaving every pair kept;
\* when all flags are already True it reports so and writes nothing.
C8_AsStated ==
    "reset dataset" \in report =>
      /\ pc = "done" /\ err = ""
      /\ NpAll(dropIfgram)
      /\ NpAll(dropIfgram0) => ("already reset" \in report /\ nWrites = 0)

\* the integers a valid token stands for: 'a' for a, 'a:b' for all from the smaller to
\* the larger of a and b
ValidToken(idx) == Len(TokenFields(idx)) \in {1, 2} /\ TokenOk(idx)

Covered(idx) ==
    LET f == TokenFields(idx)
        a == IntVal(f[1])
        b == IntVal(f[Len(f)])
    IN  {x \in (IF a < b THEN a ELSE b)..(IF a < b THEN b ELSE a) : TRUE}

\* 'b:a' for 'a:b'
Swapped(idx) ==
    LET f == TokenFields(idx)
    IN  IF Len(f) = 2 THEN f[2] \o <<":">> \o f[1] ELSE idx

\* C9: for a list of tokens that are integers or ranges a:b, read_input_index_list
\* returns the strictly ascending list of the integers the tokens cover, both ends of a
\* range included, those not below numIfgramOrig left out when a stack file is given;
\* the list with every range written the other way round gives the same result;
\* ['2','4:6','4:6'] gives [2,4,5,6] and ['5:2'] gives [2,3,4,5].
C9_IndexParser ==
    LET l == idxCall.idxList
    IN  (idxCall.pc # "call" /\ idxCall.pc # "none" /\ \A k \in 1..Len(l) : ValidToken(l[k])) =>
          /\ idxCall.pc = "return"
          /\ \A i, j \in 1..Len(idxCall.out) : i < j => idxCall.out[i] < idxCall.out[j]
          /\ Range(idxCall.out)
               = {x \in UNION {Covered(l[k]) : k \in 1..Len(l)} :
                    idxCall.stackFile = <<>> \/ x < NumIfgramOrig(idxCall.stackFile[1])}
          /\ ReadInputIndexList([k \in 1..Len(l) |-> Swapped(l[k])], idxCall.stackFile).out
               = idxCall.out
          /\ (l = <<IntStr(2), Tok(4, 6), Tok(4, 6)>> /\ idxCall.stackFile = <<>>)
               => idxCall.out = <<2, 4, 5, 6>>
          /\ (l = <<Tok(5, 2)>> /\ idxCall.stackFile = <<>>) => idxCall.out = <<2, 3, 4, 5>>

\* the first documented example
C9_Witness ==
    /\ idxCall.pc = "return"
    /\ idxCall.stackFile = <<>>
    /\ idxCall.idxList = <<IntStr(2), Tok(4, 6), Tok(4, 6)>>
    /\ idxCall.out = <<2, 4, 5, 6>>

\* C10 as stated: every index outside [0, pairCount) is removed from the parsed list,
\* the rule drops exactly the pairs at the remaining positions, and no index input of
\* the command line, the template or both makes the run raise.
C10_AsStated ==
    /\ err \notin {"IndexError", "AttributeError"}
    /\ \A k \in 1..Len(inps.excludeIfgIndex) :
          inps.excludeIfgIndex[k] \in 0..(NumIfgramOrig(file) - 1)
    /\ tempLists["excludeIfgIndex"] # <<>> =>
          Range(tempLists["excludeIfgIndex"][1])
            = {Date12ListOf(file)[i + 1] :
                 i \in Range(inps.excludeIfgIndex) \cap 0..(NumIfgramOrig(file) - 1)}

\* a token with more than one ':'
ManyColons(idx) == Cardinality({k \in 1..Len(idx) : idx[k] = ":"}) > 1

\* C11 as stated: for a list whose tokens are integers, ranges a:b or tokens with more
\* than one ':', read_input_index_list returns (it does not raise), reports every token
\* with more than one ':' as unrecognized, and returns what it returns for the list of
\* the other tokens.
C11_AsStated ==
    LET l == idxCall.idxList
        others == Filter(l, {t \in Range(l) : ~ManyColons(t)})
    IN  (idxCall.pc \notin {"call", "none"}
           /\ \A k \in 1..Len(l) : ValidToken(l[k]) \/ ManyColons(l[k])) =>
          /\ idxCall.pc = "return"
          /\ Range(idxCall.unrecognized) = {t \in Range(l) : ManyColons(t)}
          /\ idxCall.out = ReadInputIndexList(others, idxCall.stackFile).out

\* the temporal baseline of a pair of the file
TbaseOf(p) == TbaseIfgramOf(file)[CHOOSE i \in 1..NumIfgramOrig(file) : Date12ListOf(file)[i] = p]

\* C12 as stated: whenever a tempBaseMax value is supplied and get_date12_to_drop has
\* gone through its rule blocks, the temporal-baseline block has run and its list holds
\* exactly the pairs with abs(temporal baseline) > tempBaseMax; with the baselines 31,
\* 29, 60 of stackA.h5 and tempBaseMax 30 the pair of 60 days is in it and the pair of
\* 29 days is not.
C12_AsStated ==
    (pc \in {"manual", "update"} /\ inps.tempBaseMax # <<>>) =>
       /\ tempLists["tempBaseMax"] # <<>>
       /\ Range(tempLists["tempBaseMax"][1])
            = {p \in FullSet : Abs(TbaseOf(p)) > inps.tempBaseMax[1]}
       /\ (file = "stackA.h5" /\ inps.tempBaseMax[1] = 30) =>
            (In(PairC, tempLists["tempBaseMax"][1]) /\ ~In(PairB, tempLists["tempBaseMax"][1]))

\* the pairs of the file with a date in inps.excludeDate
WithExcludedDate == {p \in FullSet : \E j \in 1..2 : In(p[j], inps.excludeDate)}

\* C13 as stated: with a non-empty excludeDate, get_date12_to_drop does not raise in
\* the date-exclusion block, the list of that block holds only pairs with an excluded
\* date, and the computed drop list holds every pair with an excluded date.
C13_AsStated ==
    (inps.excludeDate # <<>> /\ "reset dataset" \notin report) =>
       /\ tempLists["excludeDate"] # <<>> =>
            /\ pc # "failed"
            /\ Range(tempLists["excludeDate"][1]) \subseteq WithExcludedDate
       /\ pc \in {"manual", "update"} => tempLists["excludeDate"] # <<>>
       /\ Computed => WithExcludedDate \subseteq Range(date12_to_drop)

\* the date a startDate / endDate option stands for, as an integer YYYYMMDD
DateOf(d) == IntVal(Yyyymmdd(d))

\* C14 as stated: for a startDate / endDate given as YYMMDD or YYYYMMDD, when
\* get_date12_to_drop has gone through its rule blocks the start-date block has listed
\* exactly the pairs with a date earlier than startDate, the end-date block exactly
\* those with a date later than endDate, and neither lists a pair whose two dates lie in
\* [startDate, endDate].
C14_AsStated ==
    pc \in {"manual", "update"} =>
       /\ inps.startDate # <<>> =>
            /\ tempLists["startDate"] # <<>>
            /\ Range(tempLists["startDate"][1])
                 = {p \in FullSet : \E j \in 1..2 : IntVal(p[j]) < DateOf(inps.startDate)}
       /\ inps.endDate # <<>> =>
            /\ tempLists["endDate"] # <<>>
            /\ Range(tempLists["endDate"][1])
                 = {p \in FullSet : \E j \in 1..2 : IntVal(p[j]) > DateOf(inps.endDate)}
       /\ \A p \in FullSet :
            (\A j \in 1..2 :
               /\ inps.startDate # <<>> => IntVal(p[j]) >= DateOf(inps.startDate)
               /\ inps.endDate # <<>> => IntVal(p[j]) <= DateOf(inps.endDate))
            => \A rule \in {"startDate", "endDate"} :
                 tempLists[rule] # <<>> => ~In(p, tempLists[rule][1])

(***************************************************************************)
(* pnet.threshold_coherence_based_mst on its own, over the pair lists of   *)
(* up to MaxMstPairs pairs on four dates                                   *)
(***************************************************************************)
MaxMstPairs == 4

MstDates == {D(20080101), D(20080201), D(20080301), D(20080401)}

\* the pairs on these dates, a pair of a date with itself included
MstPairs == {p \in MstDates \X MstDates : p = <<p[1], p[1]>> \/ Date12Less(p, <<p[2], p[1]>>)}

MstCohValues == {4, 9}

MstInputs ==
    UNION {{[date12List |-> SortedDate12(P), cohList |-> c] :
              c \in [1..Cardinality(P) -> MstCohValues]} :
           P \in {Q \in SUBSET MstPairs : Cardinality(Q) <= MaxMstPairs}}

MstInit ==
    /\ file = "stackA.h5"
    /\ dropIfgram = AllTrue(file)
    /\ dropIfgram0 = dropIfgram
    /\ RunLocalsInit
    /\ idxCall = NoIdxCall
    /\ \E a \in MstInputs : fnCall = [NoFnCall EXCEPT !.fn = "mst", !.pc = "call", !.args = a]

\* mst_date12_list = pnet.threshold_coherence_based_mst(date12ListAll, cohList)
ThresholdCoherenceBasedMstCall ==
    /\ fnCall.fn = "mst" /\ fnCall.pc = "call"
    /\ fnCall' = [fnCall EXCEPT
                    !.pc = "return",
                    !.out = ThresholdCoherenceBasedMst(fnCall.args.date12List,
                                                       fnCall.args.cohList)]
    /\ UNCHANGED <<file, dropIfgram, template, inps, pc, date12_to_drop, date12_to_keep,
                   tempLists, date12_click, proceed, result, err, report, nWrites, dropIfgram0,
                   idxCall>>

MstNext == ThresholdCoherenceBasedMstCall

SpecMst == MstInit /\ [][MstNext]_vars

\* the dates of a set of pairs
DatesOf(E) == UNION {{p[1], p[2]} : p \in E}

\* the dates joined to a date of 'from' by a path of pairs of E
RECURSIVE Reachable(_, _)
Reachable(from, E) ==
    LET n == from \cup {d \in DatesOf(E) :
                          \E p \in E : (p[1] \in from /\ d = p[2]) \/ (p[2] \in from /\ d = p[1])}
    IN  IF n = from THEN from ELSE Reachable(n, E)

\* the connected components of the graph with vertices V and edges E
ComponentsOf(V, E) == {Reachable({v}, E) : v \in V}

\* C15: the list returned by the MST engine holds pairs of the input without
\* repetition; it is acyclic (its pairs number the dates minus the components they
\* form) and joins exactly the dates the input joins, so it has (dates - components of
\* the input) pairs: dates - 1 for a connected input, and none for an input on a single
\* date.
C15_MstIsSpanningForest ==
    (fnCall.fn = "mst" /\ fnCall.pc = "return") =>
       LET E   == Range(fnCall.args.date12List)
           V   == DatesOf(E)
           out == Range(fnCall.out)
       IN  /\ out \subseteq E
           /\ Cardinality(out) = Len(fnCall.out)
           /\ \A p \in out : p[1] # p[2]
           /\ Cardinality(out) = Cardinality(V) - Cardinality(ComponentsOf(V, out))
           /\ ComponentsOf(V, out) = ComponentsOf(V, E)
           /\ Cardinality(out) = Cardinality(V) - Cardinality(ComponentsOf(V, E))
           /\ Cardinality(ComponentsOf(V, E)) = 1 =>
                /\ Cardinality(out) = Cardinality(V) - 1
                /\ Cardinality(V) > 1 => DatesOf(out) = V
           /\ Cardinality(V) <= 1 => fnCall.out = <<>>

\* a connected input with a cycle on all four dates: three of its four pairs returned
C15_Witness ==
    /\ fnCall.fn = "mst" /\ fnCall.pc = "return"
    /\ Len(fnCall.args.date12List) = 4
    /\ DatesOf(Range(fnCall.args.date12List)) = MstDates
    /\ Cardinality(ComponentsOf(MstDates, Range(fnCall.args.date12List))) = 1
    /\ Len(fnCall.out) = 3

(***************************************************************************)
(* ptime.yyyymmdd on its own, over the strings of up to MaxDateLen         *)
(* characters                                                              *)
(***************************************************************************)
MaxDateLen == 8

DateChars == {"1", "9", "x"}

DateInputs == UNION {[1..n -> DateChars] : n \in 0..MaxDateLen}

DateInit ==
    /\ file = "stackA.h5"
    /\ dropIfgram = AllTrue(file)
    /\ dropIfgram0 = dropIfgram
    /\ RunLocalsInit
    /\ idxCall = NoIdxCall
    /\ \E d \in DateInputs :
         fnCall = [NoFnCall EXCEPT !.fn = "yyyymmdd", !.pc = "call", !.args = d]

\* datesOut = ptime.yyyymmdd(dates) for a str: the function has no raise
YyyymmddCall ==
    /\ fnCall.fn = "yyyymmdd" /\ fnCall.pc = "call"
    /\ fnCall' = [fnCall EXCEPT !.pc = "return", !.out = <<Yyyymmdd(fnCall.args)>>]
    /\ UNCHANGED <<file, dropIfgram, template, inps, pc, date12_to_drop, date12_to_keep,
                   tempLists, date12_click, proceed, result, err, report, nWrites, dropIfgram0,
                   idxCall>>

DateNext == YyyymmddCall

SpecDate == DateInit /\ [][DateNext]_vars

\* C16 as stated: yyyymmdd returns a string of 6 digits with 19 in front if it starts
\* with 9 and with 20 in front otherwise, returns a string of 8 digits unchanged, and
\* for a string of another length or with a character that is not a digit it raises
\* and returns nothing.
C16_AsStated ==
    (fnCall.fn = "yyyymmdd" /\ fnCall.pc # "call") =>
       LET d == fnCall.args
       IN  /\ (Len(d) = 6 /\ AllDigits(d)) =>
                /\ fnCall.pc = "return"
                /\ fnCall.out = <<(IF d[1] = "9" THEN <<"1", "9">> ELSE <<"2", "0">>) \o d>>
           /\ (Len(d) = 8 /\ AllDigits(d)) => (fnCall.pc = "return" /\ fnCall.out = <<d>>)
           /\ ~(Len(d) \in {6, 8} /\ AllDigits(d)) =>
                (fnCall.pc = "raise" /\ fnCall.error # "" /\ fnCall.out = <<>>)

(***************************************************************************)
(* ptime.list_ifgram2date12 on its own, over the lists of up to MaxIfgrams *)
(* pair strings                                                            *)
(***************************************************************************)
MaxIfgrams == 2

\* yymmdd of one str: an 8 character date loses its century, any other is returned as
\* it is
Yymmdd(date) == IF Len(date) = 8 THEN SubSeq(date, 3, 8) ELSE date

\* s.replace(old, new) for single characters
Replace(s, old, new) == [k \in 1..Len(s) |-> IF s[k] = old THEN new ELSE s[k]]

\* re.findall('\d{n}[-_]\d{n}', s): the positions where a match starts
MatchStarts(s, n) ==
    {k \in 1..(Len(s) - 2 * n) :
        /\ \A j \in k..(k + n - 1) : s[j] \in DigitSet
        /\ s[k + n] \in {"-", "_"}
        /\ \A j \in (k + n + 1)..(k + 2 * n) : s[j] \in DigitSet}

\* re.findall(...)[0] with '_' replaced by '-'; called only where there is a match
FirstMatch(s, n) ==
    LET k == CHOOSE i \in MatchStarts(s, n) : \A j \in MatchStarts(s, n) : i <= j
    IN  Replace(SubSeq(s, k, k + 2 * n), "_", "-")

\* list_ifgram2date12(ifgram_list): the 8 digit pattern on every string, the 6 digit
\* pattern on every string if that raises, IndexError if that raises too; then the two
\* dates of each match through yymmdd, joined by '-' in the order they came
ListIfgram2Date12(ifgram_list) ==
    LET all(n) == \A k \in 1..Len(ifgram_list) : MatchStarts(ifgram_list[k], n) # {}
        date12_list(n) == [k \in 1..Len(ifgram_list) |-> FirstMatch(ifgram_list[k], n)]
        join(date12) == LET f == Split(date12, "-")
                        IN  Yymmdd(f[1]) \o <<"-">> \o Yymmdd(f[2])
        outOf(l) == [k \in 1..Len(l) |-> join(l[k])]
    IN  IF all(8) THEN [error |-> "", out |-> outOf(date12_list(8))]
        ELSE IF all(6) THEN [error |-> "", out |-> outOf(date12_list(6))]
        ELSE [error |-> "IndexError", out |-> <<>>]

\* the dates of the pair strings
PairDates == {D(20080520), D(20090101), Str6(80520)}

PairStr(a, sep, b) == a \o <<sep>> \o b

PairStrings == {PairStr(a, sep, b) : a \in PairDates, sep \in {"-", "_"}, b \in PairDates}
                  \cup {D(2008)}

IfgramLists == UNION {[1..n -> PairStrings] : n \in 0..MaxIfgrams}

PairInit ==
    /\ file = "stackA.h5"
    /\ dropIfgram = AllTrue(file)
    /\ dropIfgram0 = dropIfgram
    /\ RunLocalsInit
    /\ idxCall = NoIdxCall
    /\ \E l \in IfgramLists :
         fnCall = [NoFnCall EXCEPT !.fn = "list_ifgram2date12", !.pc = "call", !.args = l]

\* date12_list = ptime.list_ifgram2date12(ifgram_list)
ListIfgram2Date12Call ==
    /\ fnCall.fn = "list_ifgram2date12" /\ fnCall.pc = "call"
    /\ LET r == ListIfgram2Date12(fnCall.args)
       IN  fnCall' = [fnCall EXCEPT !.pc = IF r.error = "" THEN "return" ELSE "raise",
                                    !.error = r.error, !.out = r.out]
    /\ UNCHANGED <<file, dropIfgram, template, inps, pc, date12_to_drop, date12_to_keep,
                   tempLists, date12_click, proceed, result, err, report, nWrites, dropIfgram0,
                   idxCall>>

PairNext == ListIfgram2Date12Call

SpecPair == PairInit /\ [][PairNext]_vars

\* C17 as stated: for one pair string of two dates in the same format, whichever comes
\* first and whichever separator joins them, list_ifgram2date12 raises if the two dates
\* are equal and else returns the pair with the earlier date first, the same pair as
\* for the string with the dates the other way round and either separator.
C17_AsStated ==
    (fnCall.fn = "list_ifgram2date12" /\ fnCall.pc # "call") =>
       \A a, b \in PairDates : \A sep \in {"-", "_"} :
          (fnCall.args = <<PairStr(a, sep, b)>> /\ Len(a) = Len(b)) =>
             IF a = b THEN fnCall.pc = "raise"
             ELSE /\ fnCall.pc = "return"
                  /\ LET f == Split(fnCall.out[1], "-")
                     IN  Len(f) = 2 /\ DateOf(f[1]) < DateOf(f[2])
                  /\ \A sep2 \in {"-", "_"} :
                       ListIfgram2Date12(<<PairStr(b, sep2, a)>>).out = fnCall.out

\* the pairs the enabled rules list for the options and the selection of this run;
\* nothing in it reads the flags of the file
DroppedByRules ==
    UNION {Range(IF rule = "manual" THEN ManualDrop(file, Clicked)
                 ELSE RuleDrop(file, inps, rule)) : rule \in EnabledRules(inps)}

\* C18: in a run that computed its drop list, whatever flags the file had when the run
\* started, the list and the value returned (when not None) hold exactly the pairs
\* that an enabled rule lists for the options of the run; at the end of the run exactly
\* these pairs are marked as dropped, so a pair that was dropped before and that no
\* enabled rule lists is kept again.
C18_NotCumulative ==
    Computed =>
       /\ Range(date12_to_drop) = DroppedByRules
       /\ result # <<>> => Range(result[1]) = DroppedByRules
       /\ pc = "done" =>
            /\ DroppedSet(dropIfgram) = DroppedByRules
            /\ \A p \in DroppedSet(dropIfgram0) \ DroppedByRules : p \notin DroppedSet(dropIfgram)

\* a run that wrote, after which a pair dropped before is kept again and another pair
\* is dropped
C18_Witness ==
    /\ pc = "done" /\ Computed /\ nWrites = 1
    /\ DroppedSet(dropIfgram0) \ DroppedSet(dropIfgram) # {}
    /\ DroppedSet(dropIfgram) \ DroppedSet(dropIfgram0) # {}
    /\ DroppedSet(dropIfgram) = DroppedByRules

\* C19 as stated: a run whose reset option is set when main tests it, by the command
\* line or by read_template2inps, only resets and returns: it ends without an
\* exception with every pair kept, no rule block has run, no drop list is computed or
\* returned, and update_drop_ifgram is not called; a run with no option and no reset
\* exits with an error and leaves the flags as they were.
C19_AsStated ==
    /\ (inps.reset /\ pc \in {"done", "failed"}) =>
          /\ pc = "done" /\ err = ""
          /\ "reset dataset" \in report
          /\ NpAll(dropIfgram)
          /\ tempLists = NoOuts /\ date12_to_drop = <<>> /\ result = <<>>
    /\ "no input option" \in report =>
          /\ pc = "failed" /\ err = "SystemExit"
          /\ ~inps.reset
          /\ dropIfgram = dropIfgram0 /\ nWrites = 0

====
